---- MODULE Spec2Model ----
(***************************************************************************)
(* The furnace plugin SDK (src/sdk.go): four lifecycle hooks (PreCreate,   *)
(* PostCreate, PreDelete, PostDelete), each with a gRPC client adapter     *)
(* used by the host and a gRPC server adapter wrapping the plugin's        *)
(* implementation.  A call slot is one invocation of a client adapter's    *)
(* Execute; several slots may be in flight at once.                        *)
(***************************************************************************)
EXTENDS Naturals, Sequences, FiniteSets

\* Number of client Execute invocations the host issues (concurrently or in
\* succession).
MaxCalls == 2

Calls == 1..MaxCalls

Kinds == {"PreCreate", "PostCreate", "PreDelete", "PostDelete"}
PreKinds == {"PreCreate", "PreDelete"}
PostKinds == {"PostCreate", "PostDelete"}

\* Stack names are Go strings, i.e. byte sequences: the empty string and
\* "pé" (one ASCII byte followed by the two UTF-8 bytes of a non-ASCII
\* rune).
StackNames == { <<>>, <<112, 195, 169>> }

\* Wire messages of the proto package and Go's nil.
NilMsg == [type |-> "nil"]
Stack(name) == [type |-> "Stack", Name |-> name]
Proceed(failed) == [type |-> "Proceed", Failed |-> failed]
Empty == [type |-> "Empty"]

\* How a Go call ends: with its return values, or with a panic.
Running == [how |-> "running", values |-> <<>>]
Return(values) == [how |-> "return", values |-> values]
Panic == [how |-> "panic", values |-> <<>>]

VARIABLES
    pc,        \* position of each client Execute call
    hook,      \* the kind of client adapter the call was made on
    key,       \* the argument given to the client adapter's Execute
    req,       \* the request handed to the remote call
    resp,      \* the response the server handler returned
    p,         \* the response the remote call gave back to the client
    err,       \* the error the remote call gave back to the client
    ret,       \* how the client adapter's Execute ended
    implSeen,  \* per call: the names the wrapped implementation was given
    implRet,   \* per call: what the wrapped implementation returned
    counter    \* per kind: how often the wrapped implementation ran

vars == <<pc, hook, key, req, resp, p, err, ret, implSeen, implRet, counter>>

Init ==
    /\ pc = [c \in Calls |-> "idle"]
    /\ hook = [c \in Calls |-> "none"]
    /\ key = [c \in Calls |-> <<>>]
    /\ req = [c \in Calls |-> NilMsg]
    /\ resp = [c \in Calls |-> NilMsg]
    /\ p = [c \in Calls |-> NilMsg]
    /\ err = [c \in Calls |-> "pending"]
    /\ ret = [c \in Calls |-> Running]
    /\ implSeen = [c \in Calls |-> <<>>]
    /\ implRet = [c \in Calls |-> <<>>]
    /\ counter = [k \in Kinds |-> 0]

----------------------------------------------------------------------------
\* The client adapters: building the request.

PreCreateClientRequest(k) == Stack(k)
PostCreateClientRequest(k) == Stack(k)
PreDeleteClientRequest(k) == Stack(k)

\* A variant that keeps only the ASCII bytes of the name.
PostDeleteClientRequest_AsciiOnly(k) ==
    Stack(SelectSeq(k, LAMBDA b : b < 128))

PostDeleteClientRequest(k) == Stack(k)

\* Issue the remote call and block on it.
IssueRemoteCall(c, kind, k, request) ==
    /\ pc[c] = "idle"
    /\ pc' = [pc EXCEPT ![c] = "calling"]
    /\ hook' = [hook EXCEPT ![c] = kind]
    /\ key' = [key EXCEPT ![c] = k]
    /\ req' = [req EXCEPT ![c] = request]
    /\ UNCHANGED <<resp, p, err, ret, implSeen, implRet, counter>>

GRPCPreCreateClientExecute(c, k) ==
    IssueRemoteCall(c, "PreCreate", k, PreCreateClientRequest(k))

GRPCPostCreateClientExecute(c, k) ==
    IssueRemoteCall(c, "PostCreate", k, PostCreateClientRequest(k))

GRPCPreDeleteClientExecute(c, k) ==
    IssueRemoteCall(c, "PreDelete", k, PreDeleteClientRequest(k))

GRPCPostDeleteClientExecute(c, k) ==
    IssueRemoteCall(c, "PostDelete", k, PostDeleteClientRequest(k))

----------------------------------------------------------------------------
\* The remote call itself (the generated stub and the connection): it ends
\* with a response and a nil error, or with a nil response and an error.

\* The call fails before the request reaches the server handler.
RemoteCallFails(c) ==
    /\ pc[c] = "calling"
    /\ pc' = [pc EXCEPT ![c] = "replied"]
    /\ p' = [p EXCEPT ![c] = NilMsg]
    /\ err' = [err EXCEPT ![c] = "error"]
    /\ UNCHANGED <<hook, key, req, resp, ret, implSeen, implRet, counter>>

\* The handler ran but its response is lost on the way back.
RemoteCallLosesResponse(c) ==
    /\ pc[c] = "served"
    /\ pc' = [pc EXCEPT ![c] = "replied"]
    /\ p' = [p EXCEPT ![c] = NilMsg]
    /\ err' = [err EXCEPT ![c] = "error"]
    /\ UNCHANGED <<hook, key, req, resp, ret, implSeen, implRet, counter>>

\* The handler's response reaches the client.
RemoteCallDelivers(c) ==
    /\ pc[c] = "served"
    /\ pc' = [pc EXCEPT ![c] = "replied"]
    /\ p' = [p EXCEPT ![c] = resp[c]]
    /\ err' = [err EXCEPT ![c] = "nil"]
    /\ UNCHANGED <<hook, key, req, resp, ret, implSeen, implRet, counter>>

----------------------------------------------------------------------------
\* The wrapped implementation (the plugin author's code) runs once: it is
\* given a name, may have a side effect (a counter) and returns `results`.
ImplExecute(c, kind, name, results) ==
    /\ implSeen' = [implSeen EXCEPT ![c] = Append(@, name)]
    /\ implRet' = [implRet EXCEPT ![c] = results]
    /\ counter' = [counter EXCEPT ![kind] = @ + 1]

\* The server adapters: what is handed to the implementation, and the
\* response built from what it returned.
PreCreateServerArg(request) == request.Name
PostCreateServerArg(request) == request.Name
PreDeleteServerArg(request) == request.Name
PostDeleteServerArg(request) == request.Name

\* A variant that inverts the implementation's answer.
PreCreateServerResponse_Negated(res) == Proceed(~res)

PreCreateServerResponse(res) == Proceed(res)
PreDeleteServerResponse(res) == Proceed(res)

GRPCPreCreateServerExecute(c) ==
    /\ pc[c] = "calling"
    /\ hook[c] = "PreCreate"
    /\ \E res \in BOOLEAN :
          /\ ImplExecute(c, "PreCreate", PreCreateServerArg(req[c]), <<res>>)
          /\ resp' = [resp EXCEPT ![c] = PreCreateServerResponse(res)]
    /\ pc' = [pc EXCEPT ![c] = "served"]
    /\ UNCHANGED <<hook, key, req, p, err, ret>>

\* A variant that runs the implementation twice for one request.
GRPCPostCreateServerExecute_Twice(c) ==
    /\ pc[c] = "calling"
    /\ hook[c] = "PostCreate"
    /\ implSeen' = [implSeen EXCEPT ![c] =
           Append(Append(@, PostCreateServerArg(req[c])),
                  PostCreateServerArg(req[c]))]
    /\ implRet' = [implRet EXCEPT ![c] = <<>>]
    /\ counter' = [counter EXCEPT !["PostCreate"] = @ + 2]
    /\ resp' = [resp EXCEPT ![c] = Empty]
    /\ pc' = [pc EXCEPT ![c] = "served"]
    /\ UNCHANGED <<hook, key, req, p, err, ret>>

GRPCPostCreateServerExecute(c) ==
    /\ pc[c] = "calling"
    /\ hook[c] = "PostCreate"
    /\ ImplExecute(c, "PostCreate", PostCreateServerArg(req[c]), <<>>)
    /\ resp' = [resp EXCEPT ![c] = Empty]
    /\ pc' = [pc EXCEPT ![c] = "served"]
    /\ UNCHANGED <<hook, key, req, p, err, ret>>

GRPCPreDeleteServerExecute(c) ==
    /\ pc[c] = "calling"
    /\ hook[c] = "PreDelete"
    /\ \E res \in BOOLEAN :
          /\ ImplExecute(c, "PreDelete", PreDeleteServerArg(req[c]), <<res>>)
          /\ resp' = [resp EXCEPT ![c] = PreDeleteServerResponse(res)]
    /\ pc' = [pc EXCEPT ![c] = "served"]
    /\ UNCHANGED <<hook, key, req, p, err, ret>>

\* A variant that answers without running the implementation.
GRPCPostDeleteServerExecute_NoDispatch(c) ==
    /\ pc[c] = "calling"
    /\ hook[c] = "PostDelete"
    /\ resp' = [resp EXCEPT ![c] = Empty]
    /\ pc' = [pc EXCEPT ![c] = "served"]
    /\ UNCHANGED <<hook, key, req, p, err, ret, implSeen, implRet, counter>>

GRPCPostDeleteServerExecute(c) ==
    /\ pc[c] = "calling"
    /\ hook[c] = "PostDelete"
    /\ ImplExecute(c, "PostDelete", PostDeleteServerArg(req[c]), <<>>)
    /\ resp' = [resp EXCEPT ![c] = Empty]
    /\ pc' = [pc EXCEPT ![c] = "served"]
    /\ UNCHANGED <<hook, key, req, p, err, ret>>

----------------------------------------------------------------------------
\* The client adapters: what Execute does with the remote call's (p, err).

\* A variant that inverts the response's failed field.
PreCreateClientResult_Negated(rp, rerr) ==
    IF rerr # "nil" THEN Return(<<FALSE>>) ELSE Return(<<~rp.Failed>>)

PreCreateClientResult(rp, rerr) ==
    IF rerr # "nil" THEN Return(<<FALSE>>) ELSE Return(<<rp.Failed>>)

\* A variant that does not swallow the remote call's error.
PostCreateClientResult_ErrChecked(rp, rerr) ==
    IF rerr # "nil" THEN Panic ELSE Return(<<>>)

PostCreateClientResult(rp, rerr) == Return(<<>>)

\* A variant without the error check: reading the field of a nil response
\* panics.
PreDeleteClientResult_NoErrCheck(rp, rerr) ==
    IF rp = NilMsg THEN Panic ELSE Return(<<rp.Failed>>)

PreDeleteClientResult(rp, rerr) ==
    IF rerr # "nil" THEN Return(<<FALSE>>) ELSE Return(<<rp.Failed>>)

PostDeleteClientResult(rp, rerr) == Return(<<>>)

\* A variant in which Execute does not wait for the remote call.
RemoteCallCompleted_NoWait(c) == pc[c] \in {"calling", "served", "replied"}

\* The states of a call in which its client Execute may go on past the
\* remote call.
RemoteCallCompleted(c) == pc[c] = "replied"

\* A variant in which the adapter keeps the last result in a field shared by
\* all its invocations.
FinishExecute_SharedResult(c, kind, result) ==
    /\ RemoteCallCompleted(c)
    /\ hook[c] = kind
    /\ ret' = [ret EXCEPT ![c] =
           IF \E d \in Calls : d # c /\ hook[d] = kind /\ pc[d] = "done"
           THEN ret[CHOOSE d \in Calls :
                        d # c /\ hook[d] = kind /\ pc[d] = "done"]
           ELSE result]
    /\ pc' = [pc EXCEPT ![c] = "done"]
    /\ UNCHANGED <<hook, key, req, resp, p, err, implSeen, implRet, counter>>

FinishExecute(c, kind, result) ==
    /\ RemoteCallCompleted(c)
    /\ hook[c] = kind
    /\ ret' = [ret EXCEPT ![c] = result]
    /\ pc' = [pc EXCEPT ![c] = "done"]
    /\ UNCHANGED <<hook, key, req, resp, p, err, implSeen, implRet, counter>>

GRPCPreCreateClientReturn(c) ==
    FinishExecute(c, "PreCreate", PreCreateClientResult(p[c], err[c]))

GRPCPostCreateClientReturn(c) ==
    FinishExecute(c, "PostCreate", PostCreateClientResult(p[c], err[c]))

GRPCPreDeleteClientReturn(c) ==
    FinishExecute(c, "PreDelete", PreDeleteClientResult(p[c], err[c]))

GRPCPostDeleteClientReturn(c) ==
    FinishExecute(c, "PostDelete", PostDeleteClientResult(p[c], err[c]))

----------------------------------------------------------------------------
ClientCalls(c, names) ==
    \E k \in names :
        \/ GRPCPreCreateClientExecute(c, k)
        \/ GRPCPostCreateClientExecute(c, k)
        \/ GRPCPreDeleteClientExecute(c, k)
        \/ GRPCPostDeleteClientExecute(c, k)

ServerHandlers(c) ==
    \/ GRPCPreCreateServerExecute(c)
    \/ GRPCPostCreateServerExecute(c)
    \/ GRPCPreDeleteServerExecute(c)
    \/ GRPCPostDeleteServerExecute(c)

RemoteCallEnds(c) ==
    \/ RemoteCallFails(c)
    \/ RemoteCallLosesResponse(c)
    \/ RemoteCallDelivers(c)

ClientReturns(c) ==
    \/ GRPCPreCreateClientReturn(c)
    \/ GRPCPostCreateClientReturn(c)
    \/ GRPCPreDeleteClientReturn(c)
    \/ GRPCPostDeleteClientReturn(c)

Next ==
    \E c \in Calls :
        \/ ClientCalls(c, StackNames)
        \/ ServerHandlers(c)
        \/ RemoteCallEnds(c)
        \/ ClientReturns(c)

Spec == Init /\ [][Next]_vars

\* The remote call blocks and then continues: once a call is issued, the
\* transport, the server handler and the client goroutine each take their
\* next step on it.  Whether the host ever calls Execute is left open.
CallProgress(c) == ServerHandlers(c) \/ RemoteCallEnds(c) \/ ClientReturns(c)

\* No step after the request is built reads the name's content, so progress
\* is followed for calls with one name.
FairNames == { <<112, 195, 169>> }

FairNext ==
    \E c \in Calls :
        \/ ClientCalls(c, FairNames)
        \/ CallProgress(c)

FairSpec ==
    /\ Init
    /\ [][FairNext]_vars
    /\ \A c \in Calls : WF_vars(CallProgress(c))

----------------------------------------------------------------------------
\* Vocabulary of the properties below.

Done(c) == pc[c] = "done"
TransportError(c) == err[c] = "error"
Delivered(c) == err[c] = "nil"
Handled(c) == resp[c] # NilMsg
NonAscii(name) == \E i \in 1..Len(name) : name[i] >= 128

\* C1: when the remote call of a PreCreate or PreDelete client adapter ends
\* with a transport error, Execute returns false and neither an error nor a
\* panic reaches the caller, whatever the implementation returned.
C1_FailOpenOnTransportError ==
    \A c \in Calls :
        (Done(c) /\ hook[c] \in PreKinds /\ TransportError(c))
            => ret[c] = Return(<<FALSE>>)

\* C1 witness: the implementation ran and answered true, the response was
\* lost, and Execute has returned.
C1_Witness ==
    \E c \in Calls :
        /\ Done(c) /\ hook[c] \in PreKinds /\ TransportError(c)
        /\ implRet[c] = <<TRUE>>
        /\ ret[c] = Return(<<FALSE>>)

\* C2: when the remote call of a PreCreate or PreDelete client adapter
\* succeeds with a response whose failed field is b, Execute returns b.
C2_PreResultPassThrough ==
    \A c \in Calls :
        (Done(c) /\ hook[c] \in PreKinds /\ Delivered(c))
            => ret[c] = Return(<<p[c].Failed>>)

\* C2 witness: one call returned for failed=true and one for failed=false.
C2_Witness ==
    \E c, d \in Calls :
        /\ Done(c) /\ hook[c] \in PreKinds /\ Delivered(c) /\ p[c].Failed
        /\ Done(d) /\ hook[d] \in PreKinds /\ Delivered(d) /\ ~p[d].Failed

\* C3: when request and response are delivered without error, the client
\* side Execute of a pre hook returns the boolean the wrapped implementation
\* returned on the server side.
C3_EndToEndPreEquivalence ==
    \A c \in Calls :
        (Done(c) /\ hook[c] \in PreKinds /\ Delivered(c))
            => (ret[c].how = "return" /\ ret[c].values = implRet[c])

\* C3 witness: a PreCreate implementation returned true for a non-empty
\* name and the client call returned true.
C3_Witness ==
    \E c \in Calls :
        /\ Done(c) /\ hook[c] = "PreCreate" /\ Delivered(c)
        /\ key[c] # <<>>
        /\ implRet[c] = <<TRUE>>
        /\ ret[c] = Return(<<TRUE>>)

\* C4: every run of a server adapter's handler calls the wrapped
\* implementation exactly once, so after n handled requests of a kind the
\* implementation of that kind has run n times.
C4_ExactlyOnceDispatch ==
    /\ \A c \in Calls : Len(implSeen[c]) = (IF Handled(c) THEN 1 ELSE 0)
    /\ \A k \in Kinds :
          counter[k] = Cardinality({c \in Calls : hook[c] = k /\ Handled(c)})

\* C4 witness: two requests of one kind have been handled.
C4_Witness ==
    \E k \in Kinds :
        /\ counter[k] = 2
        /\ Cardinality({c \in Calls : hook[c] = k /\ Handled(c)}) = 2

\* C5: the name the wrapped implementation receives is the name given to the
\* client adapter's Execute, for all four kinds: the request carries it
\* unchanged and the handler hands the request's name on unchanged.
C5_IdentifierRoundTrip ==
    \A c \in Calls :
        /\ (pc[c] # "idle") => req[c] = Stack(key[c])
        /\ \A i \in 1..Len(implSeen[c]) : implSeen[c][i] = key[c]

\* C5 witness: one implementation was given a name with non-ASCII content
\* and another the empty name.
C5_Witness ==
    \E c, d \in Calls :
        /\ Handled(c) /\ NonAscii(key[c]) /\ implSeen[c] = <<key[c]>>
        /\ Handled(d) /\ key[d] = <<>> /\ implSeen[d] = <<key[d]>>

\* C6: over a transport that delivers, one client Execute of a post hook
\* causes exactly one run of the wrapped implementation, which has happened
\* when the client call returns, and the call returns no payload; after k
\* such calls the implementation's counter is k.
C6_PostEndToEndSideEffect ==
    /\ \A c \in Calls :
          (Done(c) /\ hook[c] \in PostKinds /\ Delivered(c))
              => (Len(implSeen[c]) = 1 /\ ret[c] = Return(<<>>))
    /\ \A k \in PostKinds :
          (\A c \in Calls : hook[c] = k => (Done(c) /\ Delivered(c)))
              => counter[k] = Cardinality({c \in Calls : hook[c] = k})

\* C6 witness: one PostDelete call has returned over a delivering transport
\* and the counter is 1.
C6_Witness ==
    /\ counter["PostDelete"] = 1
    /\ \E c \in Calls :
          /\ hook[c] = "PostDelete" /\ Done(c) /\ Delivered(c)
          /\ ret[c] = Return(<<>>)

\* C7: when the remote call of a PostCreate or PostDelete client adapter
\* ends with a transport error, Execute returns normally with no payload,
\* as it does on delivery, even if the implementation never ran.
C7_PostTransportFailureSilent ==
    \A c \in Calls :
        (Done(c) /\ hook[c] \in PostKinds /\ TransportError(c))
            => ret[c] = Return(<<>>)

\* C7 witness: a post call returned after a transport error although the
\* implementation was never invoked, next to one that was delivered.
C7_Witness ==
    \E c, d \in Calls :
        /\ Done(c) /\ hook[c] \in PostKinds /\ TransportError(c)
        /\ implSeen[c] = <<>>
        /\ Done(d) /\ hook[d] = hook[c] /\ Delivered(d)
        /\ ret[c] = ret[d]

\* What Execute hands to the host for a response that says failed.
FailedOutcome == Return(<<Proceed(TRUE).Failed>>)

\* C8: for a PreCreate or PreDelete implementation whose Execute returned
\* false (the documented abort), the value the host receives from the client
\* adapter's Execute is the one that signals abort, the failed outcome.
C8_AbortOnFalse ==
    \A c \in Calls :
        (Done(c) /\ hook[c] \in PreKinds /\ Delivered(c)
            /\ implRet[c] = <<FALSE>>)
            => ret[c] = FailedOutcome

\* C9: a client adapter's Execute returns only after its own remote call
\* has completed with a response or a transport error, and, the transport
\* completing every call, every Execute that was called returns.
C9_SynchronousBlockingCall ==
    /\ [](\A c \in Calls : Done(c) => (Delivered(c) \/ TransportError(c)))
    /\ \A c \in Calls : (pc[c] = "calling") ~> Done(c)

\* C9 witness: a call has returned after its remote call completed.
C9_Witness ==
    \E c \in Calls : Done(c) /\ ret[c].how = "return" /\ Delivered(c)

\* The result of a call run on its own.
ResultAlone(kind, rerr, implResults) ==
    IF kind \in PostKinds THEN Return(<<>>)
    ELSE IF rerr = "nil" THEN Return(implResults)
    ELSE Return(<<FALSE>>)

\* C10: under any interleaving of client Execute calls, each call's result
\* depends only on its own identifier and its own remote outcome: it is the
\* result the call would have had alone, its implementation is given its own
\* identifier, and it is never handed another call's response.
C10_CallIndependence ==
    \A c \in Calls :
        /\ Done(c) => ret[c] = ResultAlone(hook[c], err[c], implRet[c])
        /\ \A i \in 1..Len(implSeen[c]) : implSeen[c][i] = key[c]
        /\ p[c] \in {NilMsg, resp[c]}

\* C10 witness: two calls of the same kind with the same identifier, both
\* delivered, have returned different results.
C10_Witness ==
    \E c, d \in Calls :
        /\ c # d /\ Done(c) /\ Done(d)
        /\ hook[c] = hook[d] /\ key[c] = key[d]
        /\ Delivered(c) /\ Delivered(d)
        /\ ret[c] = Return(<<TRUE>>) /\ ret[d] = Return(<<FALSE>>)

====
